---------------------------- MODULE Spec2Model ----------------------------
(***************************************************************************)
(* Model of main.py: the resumable batch image-description pipeline.       *)
(*                                                                         *)
(*   Spec      the coordinator process_images run one run at a time over   *)
(*             a folder, with the thread pool's workers, the checkpoint    *)
(*             file and the output file.                                   *)
(*   FairSpec  the first MaxFairRuns runs of Spec with the fairness the    *)
(*             thread pool and the coordinator loop provide.               *)
(*   SpecProc  one call of process_single_image, attempt by attempt,       *)
(*             against every behaviour of Image.verify and ollama.chat.    *)
(***************************************************************************)
EXTENDS Integers, Sequences, FiniteSets, TLC

(***************************************************************************)
(* Bounds of the model.                                                    *)
(***************************************************************************)
MaxRuns == 2
MaxFairRuns == 1
MaxRetriesArg == 4

(***************************************************************************)
(* Program constants.                                                      *)
(***************************************************************************)
DefaultMaxRetries == 3
BackoffDelay == 2
WorkerCap == 10
CheckpointInterval == 100

(***************************************************************************)
(* File names are sequences of characters, so that lower() and endswith()  *)
(* are computed and not assumed.                                           *)
(***************************************************************************)
Lower(c) ==
    CASE c = "P" -> "p" [] c = "N" -> "n" [] c = "G" -> "g"
      [] c = "J" -> "j" [] c = "A" -> "a" [] c = "B" -> "b"
      [] OTHER -> c

LowerStr(s) == [i \in 1..Len(s) |-> Lower(s[i])]

EndsWith(s, suffix) ==
    /\ Len(s) >= Len(suffix)
    /\ SubSeq(s, Len(s) - Len(suffix) + 1, Len(s)) = suffix

Extensions ==
    { <<".", "p", "n", "g">>, <<".", "j", "p", "g">>, <<".", "j", "p", "e", "g">>,
      <<".", "g", "i", "f">>, <<".", "b", "m", "p">>, <<".", "t", "i", "f", "f">> }

IsImageName(file) == \E ext \in Extensions : EndsWith(LowerStr(file), ext)

\* The directory entries a folder may hold: two images (one with an upper-case
\* extension) and one entry that is not an image (no dot before "png").
FileA == <<"a", ".", "p", "n", "g">>
FileB == <<"B", ".", "J", "P", "G">>
FileP == <<"p", "n", "g">>
Files == {FileA, FileB, FileP}

\* Line 132: the entries of the listing with an image extension.
Images(listing) == {file \in listing : IsImageName(file)}


(***************************************************************************)
(* process_single_image: one iteration of its retry loop.                  *)
(*                                                                         *)
(* An event is what the try block of one iteration meets: img.verify()     *)
(* raising (the service is then not called), or ollama.chat returning a    *)
(* description or raising.  exc is the class of the exception as the       *)
(* except clauses see it.                                                  *)
(***************************************************************************)
Descriptions == {"d1", "d2"}

VerifyEvents ==
    { [stage |-> "verify", exc |-> e, text |-> "-"] :
        e \in {"IOError", "UnidentifiedImageError", "Exception"} }

ChatEvents ==
    { [stage |-> "chat", exc |-> "none", text |-> d] : d \in Descriptions }
    \cup { [stage |-> "chat", exc |-> e, text |-> "-"] :
              e \in {"ResponseError", "IOError", "Exception"} }

Events == VerifyEvents \cup ChatEvents

\* In the runs of the coordinator the service answers with one description.
WorkerEvents == {ev \in Events : ev.text # "d2"}

\* Mutant: only the service's rejection is told apart; every other exception
\* is retried.
Handler_RetriesIOError(exc) ==
    IF exc = "ResponseError" THEN "Ollama ResponseError" ELSE "Unexpected error"

\* Mutant: the service's rejection falls to the general clause and is retried.
Handler_RetriesRejection(exc) ==
    IF exc \in {"IOError", "UnidentifiedImageError"} THEN "IOError"
    ELSE "Unexpected error"

\* The except clause that catches an exception of class exc (lines 77, 82, 87).
Handler(exc) ==
    CASE exc \in {"IOError", "UnidentifiedImageError"} -> "IOError"
      [] exc = "ResponseError" -> "Ollama ResponseError"
      [] OTHER -> "Unexpected error"

Success(description) == [status |-> "success", description |-> description]
Failure(kind) == [status |-> "error", message |-> kind]
None == [status |-> "None"]

\* The loop condition of line 67.
LoopCondition(r, maxr) == r < maxr

\* retries += 1 of line 90.
NextRetries(r) == r + 1

\* Mutant: the comparison of line 91 off by one (<=), sleeping after the last
\* attempt as well.
SleepsAndRetries_OffByOne(r, maxr) == r <= maxr

\* Mutant: the comparison of line 91 giving up one attempt early.
SleepsAndRetries_GivesUpEarly(r, maxr) == r < maxr - 1

\* The condition of line 91 under which the loop sleeps and goes round again.
SleepsAndRetries(r, maxr) == r < maxr

\* One iteration of the loop body (lines 68-94) with retries = r on entry:
\* whether it returns, the value returned, retries afterwards, the time slept
\* and whether get_description was called.
Iteration(r, maxr, ev) ==
    LET called == ev.stage = "chat"
        kind == Handler(ev.exc)
    IN  IF ev.exc = "none"
        THEN [returned |-> TRUE, result |-> Success(ev.text), retries |-> r,
              slept |-> 0, called |-> called]
        ELSE IF kind # "Unexpected error"
        THEN [returned |-> TRUE, result |-> Failure(kind), retries |-> r,
              slept |-> 0, called |-> called]
        ELSE IF SleepsAndRetries(NextRetries(r), maxr)
        THEN [returned |-> FALSE, result |-> None, retries |-> NextRetries(r),
              slept |-> BackoffDelay, called |-> called]
        ELSE [returned |-> TRUE, result |-> Failure(kind),
              retries |-> NextRetries(r), slept |-> 0, called |-> called]

(***************************************************************************)
(* State.                                                                  *)
(*   Persistent: ckptFile (processed_images.json), outFile                 *)
(*   (Q3_Descriptions.txt).                                                *)
(*   Coordinator (process_images): pc, folder (what os.listdir returned),  *)
(*   the list images, the set                                              *)
(*   processed_images, fut (future_to_image and each future's state),      *)
(*   count, remaining, max_workers; ui is the last Streamlit message.      *)
(*   runs counts the calls of process_images; loaded and out0 remember     *)
(*   the checkpoint loaded and the length of the output file at the start  *)
(*   of the run.                                                           *)
(*   Processor (one call of process_single_image): p_pc, max_retries,      *)
(*   retries, p_result; attempts, calls, delays, slept and history record  *)
(*   what the call did.                                                    *)
(*   batch: the as_completed loop of a run over many images, in counts     *)
(*   (SpecBatch).                                                          *)
(***************************************************************************)
VARIABLES ckptFile, outFile, pc, folder, images, processed_images, fut, count,
          remaining, max_workers, ui, runs, loaded, out0,
          p_pc, max_retries, retries, p_result, attempts, calls, delays,
          slept, history, batch

coordVars == <<ckptFile, outFile, pc, folder, images, processed_images, fut, count,
               remaining, max_workers, ui, runs, loaded, out0>>
procVars == <<p_pc, max_retries, retries, p_result, attempts, calls, delays,
              slept, history>>
vars == <<coordVars, procVars, batch>>

(***************************************************************************)
(* SpecProc: process_single_image(image_path, max_retries).                *)
(***************************************************************************)
ProcIdle ==
    /\ p_pc = "idle"
    /\ max_retries = DefaultMaxRetries
    /\ retries = 0
    /\ p_result = None
    /\ attempts = 0
    /\ calls = 0
    /\ delays = 0
    /\ slept = 0
    /\ history = << >>

\* Entry of the call: retries = 0 (line 66), any retry limit.
ProcEntered ==
    /\ p_pc = "loop"
    /\ max_retries \in 0..MaxRetriesArg
    /\ retries = 0
    /\ p_result = None
    /\ attempts = 0
    /\ calls = 0
    /\ delays = 0
    /\ slept = 0
    /\ history = << >>

\* One pass through the loop body, the event being what verify and the
\* service do in it.
ProcAttempt(ev) ==
    /\ p_pc = "loop"
    /\ LoopCondition(retries, max_retries)
    /\ LET it == Iteration(retries, max_retries, ev)
       IN  /\ retries' = it.retries
           /\ p_result' = it.result
           /\ p_pc' = IF it.returned THEN "returned" ELSE "loop"
           /\ calls' = calls + (IF it.called THEN 1 ELSE 0)
           /\ delays' = delays + (IF it.slept > 0 THEN 1 ELSE 0)
           /\ slept' = slept + it.slept
    /\ attempts' = attempts + 1
    /\ history' = Append(history, ev)
    /\ UNCHANGED <<max_retries, coordVars, batch>>

\* The loop condition is false: the function falls off its end and
\* returns None.
ProcFallThrough ==
    /\ p_pc = "loop"
    /\ ~LoopCondition(retries, max_retries)
    /\ p_pc' = "returned"
    /\ p_result' = None
    /\ UNCHANGED <<max_retries, retries, attempts, calls, delays, slept,
                   history, coordVars, batch>>

(***************************************************************************)
(* The checkpoint file and the output file.                                *)
(***************************************************************************)
Range(f) == {f[x] : x \in DOMAIN f}

Min(a, b) == IF a < b THEN a ELSE b

NoFile == [exists |-> FALSE, data |-> << >>]

\* A checkpoint file whose writing was cut short: the text written so far
\* carries the identifiers of prefix and lacks its end, so it is not JSON.
TornFile(prefix) == [exists |-> TRUE, data |-> prefix, torn |-> TRUE]

Parses(file) == "torn" \notin DOMAIN file

\* Mutant: an unreadable checkpoint is read for what it holds.
LoadRaises_Never(file) == FALSE

\* Line 31: json.load raises on a file that is not JSON.
LoadRaises(file) == file.exists /\ ~Parses(file)

\* Mutant: the file is never read.
LoadCheckpoint_Empty(file) == {}

\* load_checkpoint: set(json.load(f)), or set() when there is no file.
LoadCheckpoint(file) == IF file.exists THEN Range(file.data) ELSE {}

\* list(processed_set): the elements in whatever order the set iterates.
ListsOf(set) ==
    {l \in [1..Cardinality(set) -> set] : Range(l) = set}

\* save_checkpoint: the file is rewritten with json.dump(list(processed_set)).
SaveCheckpoint(set) == {[exists |-> TRUE, data |-> l] : l \in ListsOf(set)}

\* Mutant: the output file is opened with 'w' whether or not it exists.
InitializeOutput_Truncates(file) == [exists |-> TRUE, data |-> << >>]

\* Lines 155-156: the output file is created only when it does not exist.
InitializeOutput(file) == IF file.exists THEN file ELSE [exists |-> TRUE, data |-> << >>]

\* write_output: open in append mode and write the line.
WriteOutput(file, line) == [exists |-> TRUE, data |-> Append(file.data, line)]

(***************************************************************************)
(* process_images.                                                         *)
(***************************************************************************)
\* Mutant: the checkpoint is not consulted.
ImagesToProcess_All(imgs, processed) == imgs

\* Line 137.
ImagesToProcess(imgs, processed) == {img \in imgs : img \notin processed}

\* What os.cpu_count() may return; 0 stands for None.
CpuCounts == {0, 1, 2}

\* Line 159.
MaxWorkers(cpu) == Min(WorkerCap, IF cpu = 0 THEN 1 ELSE cpu)

\* What a future holds once done: the value process_single_image returned,
\* or an exception.
Returned(value) == [raised |-> FALSE, value |-> value, exc |-> "-"]
Raised(exc) == [raised |-> TRUE, value |-> None, exc |-> exc]
Pending == Returned(None)

\* Lines 170-191: future.result() and result["status"] inside the try; an
\* exception from either (the future's own, or the TypeError of subscripting
\* None) is caught by except Exception.
TryRaises(outcome) == outcome.raised \/ outcome.value = None

\* Mutant: line 173 takes every returned value for a success.
IsSuccess_AnyValue(outcome) == ~TryRaises(outcome)

\* Line 173: result["status"] == "success".
IsSuccess(outcome) == ~TryRaises(outcome) /\ outcome.value.status = "success"

\* The record written for a completed future (lines 175, 183, 190).
LineFor(image, outcome) ==
    IF TryRaises(outcome)
    THEN [head |-> "Unhandled exception for image", image |-> image,
          text |-> IF outcome.raised THEN outcome.exc ELSE "TypeError"]
    ELSE IF outcome.value.status = "success"
    THEN [head |-> "Processing image", image |-> image,
          text |-> outcome.value.description]
    ELSE [head |-> "Error processing image", image |-> image,
          text |-> outcome.value.message]

\* Mutant: the except branch of lines 186-191 writes nothing.
OutputAfter_DropsUnhandled(file, image, outcome) ==
    IF TryRaises(outcome) THEN file ELSE WriteOutput(file, LineFor(image, outcome))

\* Mutant: only the success branch writes a record.
OutputAfter_SilentFailure(file, image, outcome) ==
    IF IsSuccess(outcome) THEN WriteOutput(file, LineFor(image, outcome)) ELSE file

\* The output file after the pass of the loop for a completed future: every
\* branch of lines 173-191 ends in one write_output.
OutputAfter(file, image, outcome) == WriteOutput(file, LineFor(image, outcome))

\* Mutant: the except clause names a narrower class.
ExceptException_Narrow(exc) == exc = "TypeError"

\* Line 186: except Exception catches every exception the try block raises.
ExceptException(exc) == exc \in {"Exception", "TypeError"}

\* Whether an exception leaves the loop body (and with it process_images).
Escapes(outcome) ==
    /\ TryRaises(outcome)
    /\ ~ExceptException(IF outcome.raised THEN outcome.exc ELSE "TypeError")

\* Mutant: the early return of lines 140-143 is missing.
NothingToDo_Never(n) == FALSE

\* Line 140.
NothingToDo(n) == n = 0

\* Mutant: the final save is missing.
FinalCheckpoint_Skipped(file, processed) == {file}

\* Line 213: the final save is unconditional.
FinalCheckpoint(file, processed) == SaveCheckpoint(processed)

\* Mutant: the image is marked processed whatever the outcome.
ProcessedAfter_Always(processed, image, outcome) == processed \cup {image}

\* Line 177 in the success branch; nothing is added in the other branches.
ProcessedAfter(processed, image, outcome) ==
    IF IsSuccess(outcome) THEN processed \cup {image} ELSE processed

\* Mutant: the save comes one completion late.
PeriodicSaveDue_Late(n) == n % (CheckpointInterval + 1) = 0

\* Line 208.
PeriodicSaveDue(n) == n % CheckpointInterval = 0

Running == {i \in DOMAIN fut : fut[i].state = "running"}

\* Mutant: process_single_image writes its own record when it returns.
WorkerOutput_Writes(file, image, it) ==
    IF it.returned THEN WriteOutput(file, LineFor(image, Returned(it.result)))
    ELSE file

\* The output file after an iteration of process_single_image in a worker:
\* the function (lines 66-94) only returns its result, it has no call of
\* write_output.
WorkerOutput(file, image, it) == file

\* Mutant: the pool is created without max_workers and starts every task.
WorkerFree_Unbounded(n, w) == TRUE

\* Line 160: ThreadPoolExecutor(max_workers=max_workers) starts a queued task
\* only while fewer than max_workers tasks are running.
WorkerFree(n, w) == n < w

\* Lines 132-165: list the folder, load the checkpoint, and either report
\* that there is nothing to do or initialize the output file and submit one
\* task per image to process.  An exception of load_checkpoint leaves
\* process_images at line 136.
ProcessImages(listing, cpu) ==
    /\ pc = "idle"
    /\ runs < MaxRuns
    /\ runs' = runs + 1
    /\ folder' = listing
    /\ images' = Images(listing)
    /\ out0' = Len(outFile.data)
    /\ count' = 0
    /\ IF LoadRaises(ckptFile)
       THEN /\ ui' = "exception"
            /\ pc' = "idle"
            /\ loaded' = {}
            /\ processed_images' = {}
            /\ remaining' = 0
            /\ fut' = << >>
            /\ UNCHANGED <<outFile, max_workers>>
       ELSE /\ loaded' = LoadCheckpoint(ckptFile)
            /\ processed_images' = LoadCheckpoint(ckptFile)
            /\ LET todo == ImagesToProcess(Images(listing), LoadCheckpoint(ckptFile))
               IN  /\ remaining' = Cardinality(todo)
                   /\ IF NothingToDo(Cardinality(todo))
                      THEN /\ ui' = "info"
                           /\ pc' = "idle"
                           /\ fut' = << >>
                           /\ UNCHANGED <<outFile, max_workers>>
                      ELSE /\ ui' = "progress"
                           /\ pc' = IF todo = {} THEN "finalizing" ELSE "draining"
                           /\ outFile' = InitializeOutput(outFile)
                           /\ max_workers' = MaxWorkers(cpu)
                           /\ fut' = [i \in todo |->
                                        [state |-> "queued", retries |-> 0,
                                         outcome |-> Pending]]
    /\ UNCHANGED <<ckptFile, procVars, batch>>

\* A free worker thread of the pool takes a queued task.
WorkerStart(i) ==
    /\ pc = "draining"
    /\ i \in DOMAIN fut
    /\ fut[i].state = "queued"
    /\ WorkerFree(Cardinality(Running), max_workers)
    /\ fut' = [fut EXCEPT ![i].state = "running"]
    /\ UNCHANGED <<ckptFile, outFile, pc, folder, images, processed_images, count,
                   remaining, max_workers, ui, runs, loaded, out0, procVars, batch>>

\* A worker runs one iteration of process_single_image's loop (the call is
\* made with the default max_retries).  When the iteration returns, or the
\* loop condition fails after it (the function then returns None), the
\* future is done and the call's retries is gone.
WorkerAttempt(i, ev) ==
    /\ pc = "draining"
    /\ i \in DOMAIN fut
    /\ fut[i].state = "running"
    /\ LoopCondition(fut[i].retries, DefaultMaxRetries)
    /\ LET it == Iteration(fut[i].retries, DefaultMaxRetries, ev)
       IN  /\ fut' = [fut EXCEPT ![i] =
                     IF it.returned \/ ~LoopCondition(it.retries, DefaultMaxRetries)
                     THEN [state |-> "done", retries |-> 0,
                           outcome |-> Returned(it.result)]
                     ELSE [state |-> "running", retries |-> it.retries,
                           outcome |-> Pending]]
           /\ outFile' = WorkerOutput(outFile, i, it)
    /\ UNCHANGED <<ckptFile, pc, folder, images, processed_images, count,
                   remaining, max_workers, ui, runs, loaded, out0, procVars, batch>>

\* The task ends with an exception instead of a value (a fault outside the
\* try block of process_single_image, or inside one of its handlers).
WorkerFault(i) ==
    /\ pc = "draining"
    /\ i \in DOMAIN fut
    /\ fut[i].state = "running"
    /\ fut' = [fut EXCEPT ![i] = [state |-> "done", retries |-> 0,
                                  outcome |-> Raised("Exception")]]
    /\ UNCHANGED <<ckptFile, outFile, pc, folder, images, processed_images, count,
                   remaining, max_workers, ui, runs, loaded, out0, procVars, batch>>

\* One pass of the as_completed loop (lines 168-210) for a finished future:
\* the record is written, a success is added to processed_images, count
\* advances, and every CheckpointInterval-th pass saves the checkpoint.
\* After the last future the loop and the with block are left.  An
\* exception that no except clause catches would leave process_images.
Collect(i) ==
    /\ pc = "draining"
    /\ i \in DOMAIN fut
    /\ fut[i].state = "done"
    /\ fut' = [fut EXCEPT ![i].state = "yielded"]
    /\ IF Escapes(fut[i].outcome)
       THEN /\ pc' = "idle"
            /\ ui' = "exception"
            /\ UNCHANGED <<ckptFile, outFile, processed_images, count>>
       ELSE /\ outFile' = OutputAfter(outFile, i, fut[i].outcome)
            /\ processed_images' =
                   ProcessedAfter(processed_images, i, fut[i].outcome)
            /\ count' = count + 1
            /\ IF PeriodicSaveDue(count + 1)
               THEN ckptFile' \in SaveCheckpoint(
                        ProcessedAfter(processed_images, i, fut[i].outcome))
               ELSE UNCHANGED ckptFile
            /\ pc' = IF \A j \in DOMAIN fut \ {i} : fut[j].state = "yielded"
                     THEN "finalizing" ELSE "draining"
            /\ UNCHANGED ui
    /\ UNCHANGED <<folder, images, remaining, max_workers, runs, loaded, out0,
                   procVars, batch>>

\* Line 213: the final save.
FinalSave ==
    /\ pc = "finalizing"
    /\ ckptFile' \in FinalCheckpoint(ckptFile, processed_images)
    /\ pc' = "saved"
    /\ UNCHANGED <<outFile, folder, images, processed_images, fut, count, remaining,
                   max_workers, ui, runs, loaded, out0, procVars, batch>>

\* Line 214: st.success, and process_images returns.
SignalCompletion ==
    /\ pc = "saved"
    /\ ui' = "success"
    /\ pc' = "idle"
    /\ UNCHANGED <<ckptFile, outFile, folder, images, processed_images, fut, count,
                   remaining, max_workers, runs, loaded, out0, procVars, batch>>

(***************************************************************************)
(* SpecBatch: the as_completed loop of one run over up to MaxBatch images, *)
(* with the images counted instead of named.  batch.count is               *)
(* processed_count and batch.total is total_remaining; batch.recorded is   *)
(* the number of success records in the output file whose images the       *)
(* checkpoint file does not hold, batch.added the number of images in      *)
(* processed_images that the checkpoint file does not hold; batch.cur is   *)
(* the outcome of the pass under way and batch.torn says that the          *)
(* checkpoint file was cut short by a crash.                               *)
(***************************************************************************)
MaxBatch == 201

\* The numbers of images to process that the runs are given.
BatchSizes == {1, CheckpointInterval, MaxBatch}

BatchIdle ==
    [pc |-> "idle", total |-> 0, count |-> 0, cur |-> "none", recorded |-> 0,
     added |-> 0, torn |-> FALSE]

\* Lines 136-166: the checkpoint is loaded, n images are pending and
\* submitted, processed_count = 0.
BatchStart(n) ==
    /\ batch.pc = "idle"
    /\ batch' = [BatchIdle EXCEPT !.pc = "loop", !.total = n]
    /\ UNCHANGED <<coordVars, procVars>>

\* Lines 168-191: the next completed future is taken and its record is
\* written; success tells the success branch from the other two.
BatchRecord(success) ==
    /\ batch.pc = "loop"
    /\ batch.count < batch.total
    /\ batch' = [batch EXCEPT !.pc = "written",
                              !.cur = IF success THEN "success" ELSE "failure",
                              !.recorded = @ + (IF success THEN 1 ELSE 0)]
    /\ UNCHANGED <<coordVars, procVars>>

\* Lines 177 and 194: the image of a success is added to processed_images,
\* and processed_count advances.
BatchMark ==
    /\ batch.pc = "written"
    /\ batch' = [batch EXCEPT !.pc = "counted",
                              !.cur = "none",
                              !.added = @ + (IF batch.cur = "success" THEN 1 ELSE 0),
                              !.count = @ + 1]
    /\ UNCHANGED <<coordVars, procVars>>

\* save_checkpoint in counts: the file now holds all of processed_images.
BatchSaved(b) == [b EXCEPT !.recorded = b.recorded - b.added, !.added = 0]

\* Lines 207-210: the periodic save, and the end of the pass; after the
\* last future the loop is left.
BatchCheckpoint ==
    /\ batch.pc = "counted"
    /\ LET b == IF PeriodicSaveDue(batch.count) THEN BatchSaved(batch) ELSE batch
       IN  batch' = [b EXCEPT !.pc = IF b.count = b.total THEN "final" ELSE "loop"]
    /\ UNCHANGED <<coordVars, procVars>>

\* Lines 213-214: the final save and st.success.
BatchFinalSave ==
    /\ batch.pc = "final"
    /\ batch' = [BatchSaved(batch) EXCEPT !.pc = "done"]
    /\ UNCHANGED <<coordVars, procVars>>

\* The process dies between two steps of the loop, or before the final
\* save: the files stay as they are and processed_images is lost.
\* batch.count and batch.total stay, to tell how far the run had got.
BatchCrash ==
    /\ batch.pc \in {"loop", "written", "counted", "final"}
    /\ batch' = [batch EXCEPT !.pc = "crashed", !.cur = "none", !.added = 0]
    /\ UNCHANGED <<coordVars, procVars>>

\* The process dies inside save_checkpoint (lines 41-42), periodic or final.
BatchCrashInSave ==
    /\ \/ batch.pc = "counted" /\ PeriodicSaveDue(batch.count)
       \/ batch.pc = "final"
    /\ batch' = [batch EXCEPT !.pc = "crashed", !.cur = "none", !.added = 0,
                              !.torn = TRUE]
    /\ UNCHANGED <<coordVars, procVars>>

NextBatch ==
    \/ \E n \in BatchSizes : BatchStart(n)
    \/ \E success \in BOOLEAN : BatchRecord(success)
    \/ BatchMark
    \/ BatchCheckpoint
    \/ BatchFinalSave
    \/ BatchCrash
    \/ BatchCrashInSave

CoordInit ==
    /\ ckptFile = NoFile
    /\ outFile = NoFile
    /\ pc = "idle"
    /\ folder = {}
    /\ images = {}
    /\ processed_images = {}
    /\ fut = << >>
    /\ count = 0
    /\ remaining = 0
    /\ max_workers = 1
    /\ ui = "none"
    /\ runs = 0
    /\ loaded = {}
    /\ out0 = 0

Init == CoordInit /\ ProcIdle /\ batch = BatchIdle

Next ==
    \/ \E listing \in SUBSET Files, cpu \in CpuCounts : ProcessImages(listing, cpu)
    \/ \E i \in Files : WorkerStart(i)
    \/ \E i \in Files, ev \in WorkerEvents : WorkerAttempt(i, ev)
    \/ \E i \in Files : WorkerFault(i)
    \/ \E i \in Files : Collect(i)
    \/ FinalSave
    \/ SignalCompletion

Spec == Init /\ [][Next]_vars

\* The pool runs every task it was given, every call made by a task returns
\* or raises, and the coordinating thread keeps running.
Fairness ==
    /\ \A i \in Files : WF_vars(WorkerStart(i))
    /\ \A i \in Files : WF_vars(WorkerFault(i) \/ \E ev \in WorkerEvents : WorkerAttempt(i, ev))
    /\ \A i \in Files : WF_vars(Collect(i))
    /\ WF_vars(FinalSave)
    /\ WF_vars(SignalCompletion)

\* The runs checked for completion: the first MaxFairRuns of a behaviour.
NextFair ==
    \/ \E listing \in SUBSET Files, cpu \in CpuCounts :
          runs < MaxFairRuns /\ ProcessImages(listing, cpu)
    \/ \E i \in Files : WorkerStart(i)
    \/ \E i \in Files, ev \in WorkerEvents : WorkerAttempt(i, ev)
    \/ \E i \in Files : WorkerFault(i)
    \/ \E i \in Files : Collect(i)
    \/ FinalSave
    \/ SignalCompletion

FairSpec == Init /\ [][NextFair]_vars /\ Fairness

(***************************************************************************)
(* SpecCrash: the runs of Spec with the process killed at any point.       *)
(***************************************************************************)
\* What is in memory is lost; the two files stay as they are.
Killed ==
    /\ pc' = "idle"
    /\ ui' = "crashed"
    /\ processed_images' = {}
    /\ loaded' = {}
    /\ fut' = << >>
    /\ count' = 0
    /\ remaining' = 0
    /\ folder' = {}
    /\ images' = {}
    /\ max_workers' = 1
    /\ out0' = 0
    /\ UNCHANGED <<runs, procVars, batch>>

\* The process dies between two statements of process_images.
Crash ==
    /\ pc \in {"draining", "finalizing", "saved"}
    /\ Killed
    /\ UNCHANGED <<ckptFile, outFile>>

\* The process dies inside a pass of the as_completed loop, after the
\* record is written (lines 175, 183, 190) and before the checkpoint file is
\* touched: the addition to processed_images is lost with the process.
CrashInCollect(i) ==
    /\ pc = "draining"
    /\ i \in DOMAIN fut
    /\ fut[i].state = "done"
    /\ ~Escapes(fut[i].outcome)
    /\ outFile' = OutputAfter(outFile, i, fut[i].outcome)
    /\ Killed
    /\ UNCHANGED ckptFile

\* The process dies inside save_checkpoint (lines 41-42): open(..., 'w') has
\* emptied the file and json.dump has written none, some or all of the
\* identifiers, but not the end of the text.
CrashInSave ==
    /\ pc = "finalizing"
    /\ \E l \in ListsOf(processed_images), n \in 0..Cardinality(processed_images) :
          ckptFile' = TornFile(SubSeq(l, 1, n))
    /\ Killed
    /\ UNCHANGED outFile

\* In the runs with crashes an item either is described or fails validation.
CrashEvents == {ev \in WorkerEvents : ev.exc \in {"none", "UnidentifiedImageError"}}

NextCrash ==
    \/ \E listing \in SUBSET Files, cpu \in CpuCounts : ProcessImages(listing, cpu)
    \/ \E i \in Files : WorkerStart(i)
    \/ \E i \in Files, ev \in CrashEvents : WorkerAttempt(i, ev)
    \/ \E i \in Files : Collect(i)
    \/ FinalSave
    \/ SignalCompletion
    \/ Crash
    \/ \E i \in Files : CrashInCollect(i)
    \/ CrashInSave

SpecCrash == Init /\ [][NextCrash]_vars

SpecBatch == Init /\ [][NextBatch]_vars

InitProc == CoordInit /\ ProcEntered /\ batch = BatchIdle

NextProc ==
    \/ \E ev \in Events : ProcAttempt(ev)
    \/ ProcFallThrough

SpecProc == InitProc /\ [][NextProc]_vars

(***************************************************************************)
(* Vocabulary of the properties, stated on the files and not through the   *)
(* operators of the model.                                                 *)
(***************************************************************************)
IsPrefix(a, b) == Len(a) <= Len(b) /\ SubSeq(b, 1, Len(a)) = a

\* The entries of Files whose names end in a recognized image extension.
RecognizedImages == {FileA, FileB}

SuccessHead == "Processing image"
ErrorHead == "Error processing image"
UnhandledHead == "Unhandled exception for image"

\* Positions of the records the current run appended, and those for image i.
RunRecords == (out0 + 1)..Len(outFile.data)
RunRecordsOf(i) == {k \in RunRecords : outFile.data[k].image = i}

\* Images with a success record appended in the current run.
SucceededInRun ==
    {i \in Files : \E k \in RunRecordsOf(i) : outFile.data[k].head = SuccessHead}

\* Positions of all records of image i in the output file.
RecordsOf(i) == {k \in 1..Len(outFile.data) : outFile.data[k].image = i}

LastRecordIsFailure(i) ==
    /\ RecordsOf(i) # {}
    /\ LET last == CHOOSE k \in RecordsOf(i) : \A m \in RecordsOf(i) : m <= k
       IN  outFile.data[last].head # SuccessHead

\* The checkpoint the file holds.
Persisted == IF ckptFile.exists THEN {ckptFile.data[k] : k \in DOMAIN ckptFile.data} ELSE {}

\* The run has got past its as_completed loop.
RunCompleted == pc \in {"finalizing", "saved"} \/ (pc = "idle" /\ ui = "success")

\* The step is a call of process_images.
RunStarts == runs' = runs + 1

(***************************************************************************)
(* C1. A run dispatches exactly the entries of the folder with a           *)
(* recognized image extension that are not in the checkpoint file; and a   *)
(* run started on the folder of the run that has just completed, with the  *)
(* checkpoint that run saved, dispatches none of the images that succeeded *)
(* in it.                                                                  *)
(***************************************************************************)
C1_ResumeIdempotence ==
    [][RunStarts =>
         /\ DOMAIN fut' = (folder' \cap RecognizedImages) \ Persisted
         /\ (ui = "success" /\ folder' = folder) =>
                DOMAIN fut' \cap (processed_images \ loaded) = {}]_vars

\* A second run over a folder whose first run processed both images, one
\* with success: only the other is dispatched.
C1_Witness ==
    /\ runs = 2
    /\ out0 = 2
    /\ folder = Files
    /\ loaded = {FileA}
    /\ DOMAIN fut = {FileB}
    /\ \E k \in 1..2 : outFile.data[k] =
           [head |-> SuccessHead, image |-> FileA, text |-> "d1"]

(***************************************************************************)
(* C2. Every image to process is submitted, and the output file gains      *)
(* exactly one record for each completed future, of the shape of its       *)
(* outcome (success, returned failure, exception from the future), and     *)
(* none for a future not yet collected; when the run is complete every     *)
(* image to process has exactly one record of this run.                    *)
(***************************************************************************)
C2_OneRecordPerItem ==
    /\ \A i \in DOMAIN fut :
          /\ fut[i].state = "yielded" =>
                /\ Cardinality(RunRecordsOf(i)) = 1
                /\ \A k \in RunRecordsOf(i) : outFile.data[k].head =
                      IF fut[i].outcome.raised THEN UnhandledHead
                      ELSE IF fut[i].outcome.value.status = "success"
                      THEN SuccessHead ELSE ErrorHead
          /\ fut[i].state # "yielded" => RunRecordsOf(i) = {}
    /\ \A k \in RunRecords : outFile.data[k].image \in DOMAIN fut
    /\ RunCompleted =>
          /\ DOMAIN fut = (folder \cap RecognizedImages) \ loaded
          /\ \A i \in DOMAIN fut : Cardinality(RunRecordsOf(i)) = 1
          /\ Len(outFile.data) - out0 = Cardinality(DOMAIN fut)

\* A completed run of two images, one of which ended with an exception in
\* its future and the other with a returned failure.
C2_Witness ==
    /\ pc = "idle"
    /\ ui = "success"
    /\ DOMAIN fut = {FileA, FileB}
    /\ fut[FileA].outcome.raised
    /\ ~fut[FileB].outcome.raised
    /\ fut[FileB].outcome.value.status = "error"
    /\ Len(outFile.data) - out0 = 2

(***************************************************************************)
(* C3. Neither the set processed_images nor the checkpoint file ever holds *)
(* an image whose last record in the output file is a failure record.      *)
(***************************************************************************)
C3_NoFailedInCheckpoint ==
    \A i \in processed_images \cup Persisted : ~LastRecordIsFailure(i)

\* A checkpoint has been saved with one image while the other image's last
\* record is a failure.
C3_Witness ==
    /\ Persisted = {FileA}
    /\ processed_images = {FileA}
    /\ LastRecordIsFailure(FileB)
    /\ ui = "success"

(***************************************************************************)
(* C4. Once the final save of a run is done, and so whenever completion    *)
(* has been signalled, the checkpoint file holds the checkpoint loaded at  *)
(* the start of the run together with exactly the images that succeeded in *)
(* the run.                                                                *)
(***************************************************************************)
C4_FinalCheckpoint ==
    (pc = "saved" \/ (pc = "idle" /\ ui = "success")) =>
        Persisted = loaded \cup SucceededInRun

\* Completion signalled for a run over two images from an empty checkpoint,
\* one image failing validation: two records, one identifier saved.
C4_Witness ==
    /\ pc = "idle"
    /\ ui = "success"
    /\ loaded = {}
    /\ Len(outFile.data) - out0 = 2
    /\ \E k \in RunRecords : outFile.data[k] =
           [head |-> ErrorHead, image |-> FileB, text |-> "IOError"]
    /\ Persisted = {FileA}

(***************************************************************************)
(* C5. Every step leaves the output file in existence if it existed and    *)
(* its previous content a prefix of its new content.                       *)
(***************************************************************************)
C5_AppendOnly ==
    [][/\ outFile.exists => outFile'.exists
       /\ IsPrefix(outFile.data, outFile'.data)]_vars

\* A later run has initialized an output file that held records and has
\* appended to it.
C5_Witness ==
    /\ runs = 2
    /\ out0 > 0
    /\ Len(outFile.data) > out0

(***************************************************************************)
(* C6. A run that finds every image of the folder in the checkpoint file   *)
(* reports that there is nothing to do and returns, leaving the output     *)
(* file and the checkpoint file as they were and submitting no task.       *)
(***************************************************************************)
C6_NothingToDo ==
    [][(RunStarts /\ (folder' \cap RecognizedImages) \subseteq Persisted) =>
         /\ ui' = "info"
         /\ pc' = "idle"
         /\ outFile' = outFile
         /\ ckptFile' = ckptFile
         /\ DOMAIN fut' = {}]_vars

\* A second run over a folder whose images are both in the checkpoint has
\* reported that there is nothing to do.
C6_Witness ==
    /\ runs = 2
    /\ pc = "idle"
    /\ ui = "info"
    /\ folder \cap RecognizedImages = {FileA, FileB}
    /\ Persisted = {FileA, FileB}
    /\ Len(outFile.data) = 2

(***************************************************************************)
(* C7. Under FairSpec every run that has dispatched tasks reaches its      *)
(* normal completion (final save done, completion signalled), whatever the *)
(* outcomes of its items.                                                  *)
(***************************************************************************)
C7_RunCompletes ==
    \A n \in 1..MaxFairRuns :
        (runs = n /\ pc = "draining") ~>
            (runs = n /\ pc = "idle" /\ ui = "success" /\ Persisted = processed_images)

\* A run has completed although one item ended with an exception in its
\* future and another exhausted its retries.
C7_Witness ==
    /\ pc = "idle"
    /\ ui = "success"
    /\ \E k \in RunRecords : outFile.data[k].head = UnhandledHead
    /\ \E k \in RunRecords : outFile.data[k] =
           [head |-> ErrorHead, image |-> FileA, text |-> "Unexpected error"]

(***************************************************************************)
(* Vocabulary of the properties of process_single_image.                   *)
(***************************************************************************)
\* The service call raised an error that is neither an image error nor a
\* rejection by the service.
TransientChat(ev) == ev.stage = "chat" /\ ev.exc = "Exception"

\* Validation of the image failed: verify raised IOError or
\* UnidentifiedImageError.
ValidationFailed(ev) ==
    ev.stage = "verify" /\ ev.exc \in {"IOError", "UnidentifiedImageError"}

AllTransientChat(h) == \A k \in 1..Len(h) : TransientChat(h[k])

UnexpectedFailure == [status |-> "error", message |-> "Unexpected error"]
ValidationFailure == [status |-> "error", message |-> "IOError"]

ChatCalls(h) == Cardinality({k \in 1..Len(h) : h[k].stage = "chat"})

C10_SuccessAfterRetries ==
    /\ (AllTransientChat(history) /\ Len(history) < max_retries) =>
          (p_pc = "loop" /\ delays = Len(history))
    /\ \A k \in 1..Len(history) :
          (history[k].exc = "none" /\ AllTransientChat(SubSeq(history, 1, k - 1))) =>
              /\ k = Len(history)
              /\ k <= max_retries
              /\ p_pc = "returned"
              /\ p_result = [status |-> "success", description |-> history[k].text]
              /\ delays = k - 1
              /\ slept = BackoffDelay * (k - 1)

\* Two transient errors, then an answer in the third and last attempt.
C10_Witness ==
    /\ p_pc = "returned"
    /\ max_retries = 3
    /\ Len(history) = 3
    /\ AllTransientChat(SubSeq(history, 1, 2))
    /\ history[3].exc = "none"
    /\ history[3].text = "d2"
    /\ p_result.status = "success"
    /\ delays = 2

(***************************************************************************)
(* C11. The pool has between 1 and WorkerCap workers, and never more tasks *)
(* are running than it has workers, also when more tasks were submitted    *)
(* than there are workers.                                                 *)
(***************************************************************************)
C11_WorkerCap ==
    /\ max_workers >= 1
    /\ max_workers <= WorkerCap
    /\ Cardinality(Running) <= max_workers

\* Two tasks for one worker: one runs, the other waits in the queue.
C11_Witness ==
    /\ pc = "draining"
    /\ max_workers = 1
    /\ DOMAIN fut = {FileA, FileB}
    /\ fut[FileA].state = "running"
    /\ fut[FileB].state = "queued"

(***************************************************************************)
(* Vocabulary of the properties of the checkpoint file under crashes.      *)
(***************************************************************************)
\* The file exists and its text is not a complete JSON document.
Unparseable(file) == file.exists /\ "torn" \in DOMAIN file

\* The identifiers the text of the file carries.
IdsIn(file) == {file.data[k] : k \in DOMAIN file.data}

(***************************************************************************)
(* C12 as stated. Whatever happens, a crash during a save included, a      *)
(* checkpoint file that could be loaded can still be loaded afterwards and *)
(* holds a superset of what it held.                                       *)
(***************************************************************************)
C12_CrashAtomicSave ==
    [][~Unparseable(ckptFile) =>
         /\ ~Unparseable(ckptFile')
         /\ ckptFile.exists => ckptFile'.exists
         /\ IdsIn(ckptFile) \subseteq IdsIn(ckptFile')]_vars

(***************************************************************************)
(* C13. A run that finds no checkpoint file starts from the empty set; a   *)
(* run that finds a checkpoint file it cannot parse ends with the          *)
(* exception at once: no task is submitted and neither file is changed.    *)
(***************************************************************************)
C13_CorruptCheckpointAborts ==
    [][RunStarts =>
         /\ ~ckptFile.exists => (loaded' = {} /\ ui' # "exception")
         /\ Unparseable(ckptFile) =>
               /\ ui' = "exception"
               /\ pc' = "idle"
               /\ DOMAIN fut' = {}
               /\ outFile' = outFile
               /\ ckptFile' = ckptFile]_vars

\* A run has ended on a checkpoint file cut short by a crash, with an image
\* to process in the folder and an output file that holds one record.
C13_Witness ==
    /\ runs = 2
    /\ pc = "idle"
    /\ ui = "exception"
    /\ Unparseable(ckptFile)
    /\ FileB \in images
    /\ FileB \notin IdsIn(ckptFile)
    /\ DOMAIN fut = {}
    /\ Len(outFile.data) = 1

(***************************************************************************)
(* C14 as stated. For every retry limit from 0 on and every behaviour of   *)
(* validation and service, a call that has returned has returned a typed   *)
(* outcome: a success with a description or a failure with a message.      *)
(***************************************************************************)
C14_TypedOutcome ==
    p_pc = "returned" =>
        \/ /\ p_result.status = "success"
           /\ p_result.description \in Descriptions
        \/ /\ p_result.status = "error"
           /\ p_result.message \in {"IOError", "Ollama ResponseError",
                                      "Unexpected error"}

\* The service's rejection: get_description raised ollama.ResponseError.
Rejection(ev) == ev.stage = "chat" /\ ev.exc = "ResponseError"

ServiceFailure == [status |-> "error", message |-> "Ollama ResponseError"]

(***************************************************************************)
(* C16. An attempt on which the service answers with a rejection is the    *)
(* last one of the call, whatever the retry limit and however many         *)
(* attempts went before: the call has returned the service-error failure,  *)
(* and no delay follows the attempt (the delays are those of the attempts  *)
(* before it).                                                             *)
(***************************************************************************)
C16_RejectionIsFinal ==
    \A k \in 1..Len(history) :
        Rejection(history[k]) =>
            /\ k = Len(history)
            /\ p_pc = "returned"
            /\ p_result = ServiceFailure
            /\ attempts = k
            /\ delays = k - 1
            /\ slept = BackoffDelay * (k - 1)

\* The rejection came on the second of four attempts allowed, after one
\* transient error and one delay.
C16_Witness ==
    /\ p_pc = "returned"
    /\ max_retries = 4
    /\ Len(history) = 2
    /\ TransientChat(history[1])
    /\ Rejection(history[2])
    /\ delays = 1
    /\ p_result = ServiceFailure

(***************************************************************************)
(* C17. The set of processed images only grows: a step that is not the     *)
(* start of a run never takes an identifier out of processed_images, a run *)
(* starts from what the file holds, and no step of any run, runs following *)
(* one another, takes an identifier out of the checkpoint file.            *)
(***************************************************************************)
C17_CheckpointGrows ==
    [][/\ Persisted \subseteq Persisted'
       /\ ~RunStarts => processed_images \subseteq processed_images'
       /\ RunStarts => processed_images' = Persisted]_vars

\* The second run loaded a checkpoint with one image and has saved one with
\* two.
C17_Witness ==
    /\ runs = 2
    /\ pc = "saved"
    /\ loaded = {FileA}
    /\ Persisted = {FileA, FileB}

\* What C18 counts as shared: the checkpoint file, the output file, the set
\* of processed images and the progress count.
Shared == <<ckptFile, outFile, processed_images, count>>

\* The step is one of a worker thread: a submitted task starts or advances.
WorkerStep ==
    /\ ~RunStarts
    /\ \E i \in DOMAIN fut :
          /\ fut[i].state \in {"queued", "running"}
          /\ fut'[i] # fut[i]

\* The step is one of the thread that called process_images: the call itself,
\* a pass of the as_completed loop, or the final save.
CoordinatorStep ==
    \/ RunStarts
    \/ \E i \in DOMAIN fut : fut[i].state = "done" /\ fut'[i].state = "yielded"
    \/ pc = "finalizing" /\ pc' = "saved"

(***************************************************************************)
(* C18. A step of a worker leaves the checkpoint file, the output file,    *)
(* the set of processed images and the count as they are; they change only *)
(* in steps of the coordinating thread; and a step appends at most one     *)
(* whole record to the output file.                                        *)
(***************************************************************************)
C18_SingleWriter ==
    [][/\ WorkerStep => UNCHANGED Shared
       /\ Shared' # Shared => CoordinatorStep
       /\ outFile.exists =>
             /\ IsPrefix(outFile.data, outFile'.data)
             /\ Len(outFile'.data) <= Len(outFile.data) + 1]_vars

\* Two workers are at work at once, one has its result and the other is
\* still running, and nothing of the run has been written yet.
C18_Witness ==
    /\ pc = "draining"
    /\ max_workers = 2
    /\ DOMAIN fut = {FileA, FileB}
    /\ fut[FileA].state = "done"
    /\ IsSuccess(fut[FileA].outcome)
    /\ fut[FileB].state = "running"
    /\ count = 0
    /\ Len(outFile.data) = out0
    /\ processed_images = loaded

\* The pass of the as_completed loop for a future has just been made.
Yields == \E i \in DOMAIN fut : fut[i].state = "done" /\ fut'[i].state = "yielded"

(***************************************************************************)
(* C19. Every pass of the loop for a completed future, whatever the        *)
(* outcome, adds one to count; count is the number of records the run has  *)
(* written, is never above the number of images the run had to process,    *)
(* and is that number once the loop is over.                               *)
(***************************************************************************)
C19_CountIsRecords ==
    /\ [](/\ count = Len(outFile.data) - out0
          /\ count <= remaining
          /\ RunCompleted => count = remaining)
    /\ [][Yields => count' = count + 1]_vars

\* A run of two images is past its loop with one success and one unhandled
\* exception, both counted.
C19_Witness ==
    /\ pc = "finalizing"
    /\ remaining = 2
    /\ count = 2
    /\ \E k \in RunRecords : outFile.data[k].head = SuccessHead
    /\ \E k \in RunRecords : outFile.data[k].head = UnhandledHead

\* Images with a success record anywhere in the output file.
SuccessRecorded ==
    {outFile.data[k].image :
        k \in {m \in 1..Len(outFile.data) : outFile.data[m].head = SuccessHead}}

(***************************************************************************)
(* C20. The success record comes first, then the addition to               *)
(* processed_images, then the save: at every point, crashes at any point   *)
(* of a run included, every identifier the run has added to                *)
(* processed_images has a success record of the run in the output file,    *)
(* and every identifier in the text of the checkpoint file, whole or cut   *)
(* short, has a success record in the output file.                         *)
(***************************************************************************)
C20_RecordBeforeCheckpoint ==
    /\ processed_images \ loaded \subseteq SucceededInRun
    /\ IdsIn(ckptFile) \subseteq SuccessRecorded

\* The second run died after writing the success record of its image: the
\* checkpoint file holds the image of the first run, the output file the
\* records of both.
C20_Witness ==
    /\ runs = 2
    /\ ui = "crashed"
    /\ ~Unparseable(ckptFile)
    /\ IdsIn(ckptFile) = {FileA}
    /\ SuccessRecorded = {FileA, FileB}

=============================================================================
